---- MODULE Spec2Model ----
(***************************************************************************)
(* Model of examples/create_samples.py: the script that draws four sample  *)
(* images with PIL and one sample video with OpenCV.                       *)
(*                                                                         *)
(* The script is sequential.  pc is the position in it, one action per     *)
(* statement group or loop iteration.  A canvas is the list of the calls   *)
(* made on it (drawing calls through the ImageDraw object bound to it,     *)
(* then save); a pixel's colour is the fill of the last call whose         *)
(* footprint holds the pixel.  The video writer is the list of the calls   *)
(* made on it.                                                             *)
(***************************************************************************)
EXTENDS Integers, Sequences, FiniteSets, TLC

VARIABLES pc, font, draw, canvases, i, x, y, cv2, out, frame, frame_num,
          stdout, files

vars == <<pc, font, draw, canvases, i, x, y, cv2, out, frame, frame_num,
          stdout, files>>

(***************************************************************************)
(* Bounds of the model (not program constants).                            *)
(***************************************************************************)
\* sin(...) is drawn from {k / SinScale : k \in -SinScale..SinScale}
SinScale == 1
\* pixels are sampled on a SampleGrid x SampleGrid grid plus the far edges
SampleGrid == 8

(***************************************************************************)
(* Program constants.                                                      *)
(***************************************************************************)
width == 1280
height == 720
fps == 30
duration == 10
\* mutant: one frame short
total_frames_short == fps * duration - 1
total_frames == fps * duration
samples_dir == "examples/samples"

ImgNames == {"img_4k", "img_1080p", "img_720p", "img_photo"}

(***************************************************************************)
(* Values handed to the drawing libraries.                                 *)
(***************************************************************************)
Pt(px, py) == <<px, py>>
\* a colour given by name ('red'); the library resolves it
Named(c) == [name |-> c, rgb |-> <<>>]
\* a colour given as a tuple of channel values, as the script computed them
RGB(r, g, b) == [name |-> "", rgb |-> <<r, g, b>>]
NoColor == Named("")

Op(kind, pts, fill, outline, w, text, fnt) ==
    [kind |-> kind, pts |-> pts, fill |-> fill, outline |-> outline,
     width |-> w, text |-> text, font |-> fnt]

Rectangle(x0, y0, x1, y1, fill, outline, w) ==
    Op("rectangle", <<Pt(x0, y0), Pt(x1, y1)>>, fill, outline, w, "", "")
Ellipse(x0, y0, x1, y1, fill, outline, w) ==
    Op("ellipse", <<Pt(x0, y0), Pt(x1, y1)>>, fill, outline, w, "", "")
Line(x0, y0, x1, y1, fill) ==
    Op("line", <<Pt(x0, y0), Pt(x1, y1)>>, fill, NoColor, 0, "", "")
Polygon(points, fill) == Op("polygon", points, fill, NoColor, 0, "", "")
Text(px, py, s, fill, fnt) == Op("text", <<Pt(px, py)>>, fill, NoColor, 0, s, fnt)
SaveCall(path) == Op("save", <<>>, NoColor, NoColor, 0, path, "")

Unbound == [size |-> <<0, 0>>, bg |-> NoColor, calls |-> <<>>, live |-> FALSE]
NewImage(w, h, color) ==
    [size |-> <<w, h>>, bg |-> Named(color), calls |-> <<>>, live |-> TRUE]

\* draw.<call>(...): the call lands on the image the ImageDraw object is bound to
DrawOn(cs, target, ops) == [cs EXCEPT ![target].calls = @ \o ops]

\* img.save(path, quality=...): the canvas is handed to the image codec
FileOf(path, cv, params) ==
    [path |-> path, size |-> cv.size, params |-> params, content |-> Len(cv.calls)]

(***************************************************************************)
(* Pure expressions of the script.                                         *)
(***************************************************************************)
\* mutant: the gradient scaled by the height instead of the width
color_val_1080p_by_height(col) == (255 * col) \div 1080
\* line 42: int(255 * (i / 1920)); the float result equals the exact floor
\* for every i in range(1920)
color_val_1080p(col) == (255 * col) \div 1920
GradientFill(col) == RGB(color_val_1080p(col), 100, 255 - color_val_1080p(col))
GradientLine(col) == Line(col, 0, col, 1080, GradientFill(col))

\* line 58-59
TileColor(tx, ty) == RGB(tx % 255, ty % 255, (tx + ty) % 255)
TileStep == 50
TileSize == 40
\* mutant: tiles as wide as the stride (the rectangle's far corner is inclusive)
TileBoxStride(tx, ty) == <<tx, ty, tx + TileStep, ty + TileStep>>
TileBox(tx, ty) == <<tx, ty, tx + TileSize, ty + TileSize>>
TileRect(tx, ty) ==
    Rectangle(TileBox(tx, ty)[1], TileBox(tx, ty)[2], TileBox(tx, ty)[3],
              TileBox(tx, ty)[4], TileColor(tx, ty), NoColor, 1)

\* line 74: int(135 + (y / 500) * 120)
color_val_sky(row) == (135 * 500 + row * 120) \div 500
SkyFill(row) == RGB(color_val_sky(row), color_val_sky(row) + 20, 255)
SkyLine(row) == Line(0, row, 2048, row, SkyFill(row))

\* line 79: int(34 + ((y - 500) / 1036) * 100)
color_val_ground(row) == (34 * 1036 + (row - 500) * 100) \div 1036
GroundFill(row) == RGB(color_val_ground(row), color_val_ground(row) + 50,
                       color_val_ground(row))
GroundLine(row) == Line(0, row, 2048, row, GroundFill(row))
SkyRows == 500
\* mutant: the ground band starts one row late
GroundStartLate == 500 + 1
GroundStart == 500
PhotoRows == 1536

\* line 83
points == <<Pt(0, 500), Pt(300, 200), Pt(600, 350), Pt(900, 150), Pt(1200, 300),
            Pt(1500, 100), Pt(1800, 250), Pt(2048, 180), Pt(2048, 500)>>

\* line 116-118: int(128 + 127 * sin(...)), with sin(...) = k / SinScale;
\* the argument of int() is positive, so truncation is the floor
VideoChannel(k) == (128 * SinScale + 127 * k) \div SinScale
SinValues == (0 - SinScale)..SinScale

\* mutant: the counter shows the 0-based index
FrameCounterLabelZeroBased(n) == "Frame " \o ToString(n) \o "/" \o ToString(total_frames)
\* line 122: f'Frame {frame_num + 1}/{total_frames}'
FrameCounterLabel(n) == "Frame " \o ToString(n + 1) \o "/" \o ToString(total_frames)
\* line 124: f'Time: {frame_num/fps:.1f}s'; frame_num/fps is never half-way
\* between two tenths, so rounding to nearest is exact
Tenths(n) == (20 * n + fps) \div (2 * fps)
TimeLabel(n) ==
    "Time: " \o ToString(Tenths(n) \div 10) \o "." \o ToString(Tenths(n) % 10) \o "s"
Caption == "Sample Video for CompressCLI"
PutText(s, px, py) ==
    Op("putText", <<Pt(px, py)>>, RGB(255, 255, 255), NoColor, 2, s,
       "FONT_HERSHEY_SIMPLEX")
Field(b, g, r) ==
    Op("field", <<Pt(0, 0), Pt(width - 1, height - 1)>>, RGB(b, g, r), NoColor, 0, "", "")

NoFrame == [id |-> -1, size |-> <<0, 0>>, calls |-> <<>>]
WriterCall(op, n) == [op |-> op, frame |-> n]

(***************************************************************************)
(* Pixels: the footprint of a call and last-write-wins.                    *)
(***************************************************************************)
InBox(op, px, py) ==
    /\ op.pts[1][1] <= px /\ px <= op.pts[2][1]
    /\ op.pts[1][2] <= py /\ py <= op.pts[2][2]

EdgeEnd(pts, k) == pts[(k % Len(pts)) + 1]
OnEdge(a, b, px, py) ==
    /\ (b[1] - a[1]) * (py - a[2]) = (b[2] - a[2]) * (px - a[1])
    /\ (IF a[1] <= b[1] THEN a[1] <= px /\ px <= b[1] ELSE b[1] <= px /\ px <= a[1])
    /\ (IF a[2] <= b[2] THEN a[2] <= py /\ py <= b[2] ELSE b[2] <= py /\ py <= a[2])
Crosses(a, b, px, py) ==
    /\ (a[2] > py) # (b[2] > py)
    /\ IF b[2] > a[2]
       THEN (px - a[1]) * (b[2] - a[2]) < (py - a[2]) * (b[1] - a[1])
       ELSE (px - a[1]) * (b[2] - a[2]) > (py - a[2]) * (b[1] - a[1])
InPolygon(pts, px, py) ==
    \/ \E k \in 1..Len(pts) : OnEdge(pts[k], EdgeEnd(pts, k), px, py)
    \/ Cardinality({k \in 1..Len(pts) : Crosses(pts[k], EdgeEnd(pts, k), px, py)}) % 2 = 1

\* the pixels a call may write: exact for lines, rectangles and polygons, the
\* bounding box for an ellipse, right of and below the anchor for text
Footprint(op, px, py) ==
    CASE op.kind \in {"line", "rectangle", "ellipse"} -> InBox(op, px, py)
      [] op.kind = "polygon" -> InPolygon(op.pts, px, py)
      [] op.kind = "text" -> op.pts[1][1] <= px /\ op.pts[1][2] <= py
      [] OTHER -> FALSE

Writers(cv, px, py) == {j \in 1..Len(cv.calls) : Footprint(cv.calls[j], px, py)}
SetMax(S) == CHOOSE m \in S : \A n \in S : n <= m
PixelAt(cv, px, py) ==
    IF Writers(cv, px, py) = {} THEN cv.bg
    ELSE cv.calls[SetMax(Writers(cv, px, py))].fill

(***************************************************************************)
(* Initial state: the interpreter is about to run the __main__ block.      *)
(***************************************************************************)
Init ==
    /\ pc = "main"
    /\ font = "unbound"
    /\ draw = "unbound"
    /\ canvases = [n \in ImgNames |-> Unbound]
    /\ i = 0
    /\ x = 0
    /\ y = 0
    /\ cv2 = "unknown"
    /\ out = <<>>
    /\ frame = NoFrame
    /\ frame_num = 0
    /\ stdout = <<>>
    /\ files = <<>>

(***************************************************************************)
(* __main__ and create_sample_images                                       *)
(***************************************************************************)
MainStart ==
    /\ pc = "main"
    /\ stdout' = Append(stdout, "Creating sample files for CompressCLI testing...")
    /\ pc' = "new_4k"
    /\ UNCHANGED <<font, draw, canvases, i, x, y, cv2, out, frame, frame_num, files>>

New4k ==
    /\ pc = "new_4k"
    /\ canvases' = [canvases EXCEPT !["img_4k"] = NewImage(3840, 2160, "skyblue")]
    /\ draw' = "img_4k"
    /\ pc' = "load_font"
    /\ UNCHANGED <<font, i, x, y, cv2, out, frame, frame_num, stdout, files>>

LoadFontOk ==
    /\ pc = "load_font"
    /\ font' = "default"
    /\ pc' = "shapes_4k"
    /\ UNCHANGED <<draw, canvases, i, x, y, cv2, out, frame, frame_num, stdout, files>>

\* mutant: the failure is not caught and leaves create_sample_images
LoadFontRaises ==
    /\ pc = "load_font"
    /\ pc' = "aborted"
    /\ UNCHANGED <<font, draw, canvases, i, x, y, cv2, out, frame, frame_num, stdout, files>>

\* ImageFont.load_default() raises; the bare except binds font = None
LoadFontFail ==
    /\ pc = "load_font"
    /\ font' = "None"
    /\ pc' = "shapes_4k"
    /\ UNCHANGED <<draw, canvases, i, x, y, cv2, out, frame, frame_num, stdout, files>>

Shapes4k ==
    /\ pc = "shapes_4k"
    /\ canvases' = DrawOn(canvases, draw,
          <<Rectangle(100, 100, 1000, 600, Named("red"), Named("black"), 5),
            Ellipse(2000, 500, 3500, 1500, Named("green"), Named("blue"), 10)>>)
    /\ pc' = "text_4k"
    /\ UNCHANGED <<font, draw, i, x, y, cv2, out, frame, frame_num, stdout, files>>

Text4k ==
    /\ pc = "text_4k"
    /\ canvases' = DrawOn(canvases, draw,
          <<Text(200, 200, "Sample 4K Image", Named("white"), font),
            Text(200, 300, "For CompressCLI Testing", Named("white"), font)>>)
    /\ pc' = "save_4k"
    /\ UNCHANGED <<font, draw, i, x, y, cv2, out, frame, frame_num, stdout, files>>

SaveImage(name, path, params, next) ==
    /\ files' = Append(files, FileOf(path, canvases[name], params))
    /\ canvases' = [canvases EXCEPT ![name].calls = Append(@, SaveCall(path))]
    /\ pc' = next
    /\ UNCHANGED <<font, draw, i, x, y, cv2, out, frame, frame_num, stdout>>

PrintLine(msg, next) ==
    /\ stdout' = Append(stdout, msg)
    /\ pc' = next
    /\ UNCHANGED <<font, draw, canvases, i, x, y, cv2, out, frame, frame_num, files>>

Save4k ==
    /\ pc = "save_4k"
    /\ SaveImage("img_4k", samples_dir \o "/sample_4k.png", <<>>, "print_4k")

Print4k ==
    /\ pc = "print_4k"
    /\ PrintLine("Created sample_4k.png (3840x2160)", "new_1080p")

\* mutant: the ImageDraw object stays bound to the previous image
New1080pStaleDraw ==
    /\ pc = "new_1080p"
    /\ canvases' = [canvases EXCEPT !["img_1080p"] = NewImage(1920, 1080, "lightgreen")]
    /\ i' = 0
    /\ pc' = "gradient"
    /\ UNCHANGED <<font, draw, x, y, cv2, out, frame, frame_num, stdout, files>>

New1080p ==
    /\ pc = "new_1080p"
    /\ canvases' = [canvases EXCEPT !["img_1080p"] = NewImage(1920, 1080, "lightgreen")]
    /\ draw' = "img_1080p"
    /\ i' = 0
    /\ pc' = "gradient"
    /\ UNCHANGED <<font, x, y, cv2, out, frame, frame_num, stdout, files>>

\* one iteration of `for i in range(1920)`; i is the index the iteration uses
GradientRange == 1920
GradientStep ==
    /\ pc = "gradient"
    /\ i < GradientRange
    /\ canvases' = DrawOn(canvases, draw, <<GradientLine(i)>>)
    /\ i' = i + 1
    /\ pc' = IF i + 1 < GradientRange THEN "gradient" ELSE "text_1080p"
    /\ UNCHANGED <<font, draw, x, y, cv2, out, frame, frame_num, stdout, files>>

Text1080p ==
    /\ pc = "text_1080p"
    /\ canvases' = DrawOn(canvases, draw,
          <<Text(100, 100, "Sample 1080p Image", Named("white"), font),
            Text(100, 150, "Gradient Background", Named("white"), font)>>)
    /\ pc' = "save_1080p"
    /\ UNCHANGED <<font, draw, i, x, y, cv2, out, frame, frame_num, stdout, files>>

Save1080p ==
    /\ pc = "save_1080p"
    /\ SaveImage("img_1080p", samples_dir \o "/sample_1080p.jpg", <<95>>, "print_1080p")

Print1080p ==
    /\ pc = "print_1080p"
    /\ PrintLine("Created sample_1080p.jpg (1920x1080)", "new_720p")

New720p ==
    /\ pc = "new_720p"
    /\ canvases' = [canvases EXCEPT !["img_720p"] = NewImage(1280, 720, "orange")]
    /\ draw' = "img_720p"
    /\ x' = 0
    /\ y' = 0
    /\ pc' = "pattern"
    /\ UNCHANGED <<font, i, cv2, out, frame, frame_num, stdout, files>>

\* one iteration of the inner loop of
\* `for x in range(0, 1280, 50): for y in range(0, 720, 50)`;
\* when the inner range is exhausted the outer loop advances
PatternWidth == 1280
PatternHeight == 720
PatternStep ==
    /\ pc = "pattern"
    /\ x < PatternWidth /\ y < PatternHeight
    /\ canvases' = DrawOn(canvases, draw, <<TileRect(x, y)>>)
    /\ IF y + TileStep < PatternHeight
       THEN /\ y' = y + TileStep
            /\ x' = x
            /\ pc' = "pattern"
       ELSE /\ y' = 0
            /\ x' = x + TileStep
            /\ pc' = IF x + TileStep < PatternWidth THEN "pattern" ELSE "text_720p"
    /\ UNCHANGED <<font, draw, i, cv2, out, frame, frame_num, stdout, files>>

Text720p ==
    /\ pc = "text_720p"
    /\ canvases' = DrawOn(canvases, draw,
          <<Text(50, 50, "Sample 720p Image", Named("white"), font),
            Text(50, 100, "Pattern Background", Named("white"), font)>>)
    /\ pc' = "save_720p"
    /\ UNCHANGED <<font, draw, i, x, y, cv2, out, frame, frame_num, stdout, files>>

Save720p ==
    /\ pc = "save_720p"
    /\ SaveImage("img_720p", samples_dir \o "/sample_720p.webp", <<90>>, "print_720p")

Print720p ==
    /\ pc = "print_720p"
    /\ PrintLine("Created sample_720p.webp (1280x720)", "new_photo")

NewPhoto ==
    /\ pc = "new_photo"
    /\ canvases' = [canvases EXCEPT !["img_photo"] = NewImage(2048, 1536, "lightblue")]
    /\ draw' = "img_photo"
    /\ y' = 0
    /\ pc' = "sky"
    /\ UNCHANGED <<font, i, x, cv2, out, frame, frame_num, stdout, files>>

\* one iteration of `for y in range(500)`
SkyStep ==
    /\ pc = "sky"
    /\ y < SkyRows
    /\ canvases' = DrawOn(canvases, draw, <<SkyLine(y)>>)
    /\ IF y + 1 < SkyRows
       THEN y' = y + 1 /\ pc' = "sky"
       ELSE y' = GroundStart /\ pc' = "ground"
    /\ UNCHANGED <<font, draw, i, x, cv2, out, frame, frame_num, stdout, files>>

\* one iteration of `for y in range(500, 1536)`
GroundStep ==
    /\ pc = "ground"
    /\ y < PhotoRows
    /\ canvases' = DrawOn(canvases, draw, <<GroundLine(y)>>)
    /\ y' = y + 1
    /\ pc' = IF y + 1 < PhotoRows THEN "ground" ELSE "mountains"
    /\ UNCHANGED <<font, draw, i, x, cv2, out, frame, frame_num, stdout, files>>

Mountains ==
    /\ pc = "mountains"
    /\ canvases' = DrawOn(canvases, draw, <<Polygon(points, Named("gray"))>>)
    /\ pc' = "text_photo"
    /\ UNCHANGED <<font, draw, i, x, y, cv2, out, frame, frame_num, stdout, files>>

TextPhoto ==
    /\ pc = "text_photo"
    /\ canvases' = DrawOn(canvases, draw,
          <<Text(100, 1400, "Sample Photo-like Image", Named("white"), font),
            Text(100, 1450, "Landscape Simulation", Named("white"), font)>>)
    /\ pc' = "save_photo"
    /\ UNCHANGED <<font, draw, i, x, y, cv2, out, frame, frame_num, stdout, files>>

SavePhoto ==
    /\ pc = "save_photo"
    /\ SaveImage("img_photo", samples_dir \o "/sample_photo.jpg", <<85>>, "print_photo")

\* the last statement of create_sample_images; on return its locals are gone
PrintPhoto ==
    /\ pc = "print_photo"
    /\ stdout' = Append(stdout, "Created sample_photo.jpg (2048x1536)")
    /\ canvases' = [n \in ImgNames |-> Unbound]
    /\ font' = "unbound"
    /\ draw' = "unbound"
    /\ i' = 0
    /\ x' = 0
    /\ y' = 0
    /\ pc' = "import_cv2"
    /\ UNCHANGED <<cv2, out, frame, frame_num, files>>

(***************************************************************************)
(* create_sample_video                                                     *)
(***************************************************************************)
ImportCv2Ok ==
    /\ pc = "import_cv2"
    /\ cv2' = "available"
    /\ pc' = "open_writer"
    /\ UNCHANGED <<font, draw, canvases, i, x, y, out, frame, frame_num, stdout, files>>

\* mutant: the ImportError is not caught and leaves create_sample_video
ImportCv2Raises ==
    /\ pc = "import_cv2"
    /\ cv2' = "unavailable"
    /\ pc' = "aborted"
    /\ UNCHANGED <<font, draw, canvases, i, x, y, out, frame, frame_num, stdout, files>>

\* `import cv2` raises ImportError; the handler prints the two notices and
\* create_sample_video returns normally
ImportCv2Fail ==
    /\ pc = "import_cv2"
    /\ cv2' = "unavailable"
    /\ stdout' = stdout \o <<"OpenCV not available, skipping video creation",
                             "To create sample video, install: pip install opencv-python numpy">>
    /\ pc' = "main_end"
    /\ UNCHANGED <<font, draw, canvases, i, x, y, out, frame, frame_num, files>>

OpenWriter ==
    /\ pc = "open_writer"
    /\ out' = <<WriterCall("open", -1)>>
    /\ frame_num' = 0
    /\ pc' = IF 0 < total_frames THEN "new_frame" ELSE "release"
    /\ UNCHANGED <<font, draw, canvases, i, x, y, cv2, frame, stdout, files>>

\* `for frame_num in range(total_frames)`: frame = np.zeros(...)
NewFrame ==
    /\ pc = "new_frame"
    /\ frame_num < total_frames
    /\ frame' = [id |-> frame_num, size |-> <<width, height>>, calls |-> <<>>]
    /\ pc' = "fill_frame"
    /\ UNCHANGED <<font, draw, canvases, i, x, y, cv2, out, frame_num, stdout, files>>

\* the two pixel loops; the frame keeps the channels of one pixel, whose three
\* sines are any values of SinValues
FillFrame ==
    /\ pc = "fill_frame"
    /\ \E kr \in SinValues, kg \in SinValues, kb \in SinValues :
          frame' = [frame EXCEPT !.calls = Append(@,
                       Field(VideoChannel(kb), VideoChannel(kg), VideoChannel(kr)))]
    /\ pc' = "stamp_frame"
    /\ UNCHANGED <<font, draw, canvases, i, x, y, cv2, out, frame_num, stdout, files>>

StampFrame ==
    /\ pc = "stamp_frame"
    /\ frame' = [frame EXCEPT !.calls = @ \o
                    <<PutText(FrameCounterLabel(frame_num), 50, 50),
                      PutText(TimeLabel(frame_num), 50, 100),
                      PutText(Caption, 50, height - 50)>>]
    /\ pc' = "write_frame"
    /\ UNCHANGED <<font, draw, canvases, i, x, y, cv2, out, frame_num, stdout, files>>

WriteFrame ==
    /\ pc = "write_frame"
    /\ out' = Append(out, WriterCall("write", frame.id))
    /\ frame' = [frame EXCEPT !.calls = Append(@, Op("write", <<>>, NoColor, NoColor, 0, "", ""))]
    /\ frame_num' = frame_num + 1
    /\ pc' = IF frame_num + 1 < total_frames THEN "new_frame" ELSE "release"
    /\ UNCHANGED <<font, draw, canvases, i, x, y, cv2, stdout, files>>

Release ==
    /\ pc = "release"
    /\ out' = Append(out, WriterCall("release", -1))
    /\ files' = Append(files,
                  [path |-> samples_dir \o "/sample_video.mp4", size |-> <<width, height>>,
                   params |-> <<fps>>,
                   content |-> Cardinality({k \in 1..Len(out) : out[k].op = "write"})])
    /\ pc' = "print_video"
    /\ UNCHANGED <<font, draw, canvases, i, x, y, cv2, frame, frame_num, stdout>>

\* the last statement of the try block; on return the locals are gone
PrintVideo ==
    /\ pc = "print_video"
    /\ stdout' = Append(stdout, "Created sample_video.mp4 (1280x720, 10s)")
    /\ pc' = "main_end"
    /\ UNCHANGED <<font, draw, canvases, i, x, y, cv2, out, frame, frame_num, files>>

MainEnd ==
    /\ pc = "main_end"
    /\ stdout' = stdout \o <<"\nSample files created in examples/samples/",
                             "You can now test CompressCLI with these files!">>
    /\ pc' = "done"
    /\ UNCHANGED <<font, draw, canvases, i, x, y, cv2, out, frame, frame_num, files>>

Next ==
    \/ MainStart
    \/ New4k
    \/ LoadFontOk
    \/ LoadFontFail
    \/ Shapes4k
    \/ Text4k
    \/ Save4k
    \/ Print4k
    \/ New1080p
    \/ GradientStep
    \/ Text1080p
    \/ Save1080p
    \/ Print1080p
    \/ New720p
    \/ PatternStep
    \/ Text720p
    \/ Save720p
    \/ Print720p
    \/ NewPhoto
    \/ SkyStep
    \/ GroundStep
    \/ Mountains
    \/ TextPhoto
    \/ SavePhoto
    \/ PrintPhoto
    \/ ImportCv2Ok
    \/ ImportCv2Fail
    \/ OpenWriter
    \/ NewFrame
    \/ FillFrame
    \/ StampFrame
    \/ WriteFrame
    \/ Release
    \/ PrintVideo
    \/ MainEnd

Spec == Init /\ [][Next]_vars

(***************************************************************************)
(* Properties                                                              *)
(***************************************************************************)
ReturnedFromVideo == pc \in {"main_end", "done"}

\* C1: with the encoder available the writer is opened, then receives the
\* frames 0, 1, ..., 299 in that order, each once, and is then released, once,
\* after the 300th write; nothing is written after the release.  The calls on
\* the writer are at every moment a prefix of open, write 0, ..., write 299,
\* release, and the whole of it once the video has been reported.
C1_WriterReceivesFramesInOrder ==
    /\ Len(out) <= 302
    /\ \A k \in 1..Len(out) :
          out[k] = IF k = 1 THEN [op |-> "open", frame |-> -1]
                   ELSE IF k <= 301 THEN [op |-> "write", frame |-> k - 2]
                   ELSE [op |-> "release", frame |-> -1]
    /\ (pc = "release") => Len(out) = 301
    /\ (pc = "print_video" \/ (ReturnedFromVideo /\ cv2 = "available")) => Len(out) = 302

C1_Witness ==
    /\ pc = "done"
    /\ cv2 = "available"
    /\ Len(out) = 302
    /\ out[301] = [op |-> "write", frame |-> 299]
    /\ out[302].op = "release"

ImageFiles ==
    <<[path |-> "examples/samples/sample_4k.png", size |-> <<3840, 2160>>,
       params |-> <<>>, content |-> 4],
      [path |-> "examples/samples/sample_1080p.jpg", size |-> <<1920, 1080>>,
       params |-> <<95>>, content |-> 1922],
      [path |-> "examples/samples/sample_720p.webp", size |-> <<1280, 720>>,
       params |-> <<90>>, content |-> 392],
      [path |-> "examples/samples/sample_photo.jpg", size |-> <<2048, 1536>>,
       params |-> <<85>>, content |-> 1539]>>

InSeq(e, s) == \E k \in 1..Len(s) : s[k] = e

\* C2: when importing the encoder fails the run ends in a skip: the notice
\* is printed, no writer is created and no frame written, there is no video
\* file, no error leaves create_sample_video, and the four image files are
\* the ones a run with the encoder has at the same point.
C2_SkipWhenEncoderUnavailable ==
    /\ pc # "aborted"
    /\ cv2 = "unavailable" =>
          /\ ReturnedFromVideo
          /\ InSeq("OpenCV not available, skipping video creation", stdout)
          /\ out = <<>>
          /\ frame = NoFrame
          /\ files = ImageFiles
    /\ cv2 = "available" => SubSeq(files, 1, 4) = ImageFiles

C2_Witness ==
    /\ pc = "done"
    /\ cv2 = "unavailable"
    /\ Len(files) = 4
    /\ out = <<>>

ChannelsOk(op) == \A k \in 1..Len(op.fill.rgb) : op.fill.rgb[k] \in 0..255

\* C3: every colour channel value a generator computes and hands to the
\* library is an integer in [0,255], on every canvas and every video frame.
C3_ChannelsInRange ==
    /\ \A n \in ImgNames : \A j \in 1..Len(canvases[n].calls) : ChannelsOk(canvases[n].calls[j])
    /\ \A j \in 1..Len(frame.calls) : ChannelsOk(frame.calls[j])

PointsInside(op, size) ==
    \A k \in 1..Len(op.pts) :
        /\ 0 <= op.pts[k][1] /\ op.pts[k][1] < size[1]
        /\ 0 <= op.pts[k][2] /\ op.pts[k][2] < size[2]

\* C7: every coordinate given to a drawing call lies within
\* [0, width) x [0, height) of the canvas it is drawn on, for the four images
\* and every video frame.
C7_CoordinatesInsideCanvas ==
    /\ \A n \in ImgNames : \A j \in 1..Len(canvases[n].calls) :
          PointsInside(canvases[n].calls[j], canvases[n].size)
    /\ \A j \in 1..Len(frame.calls) : PointsInside(frame.calls[j], frame.size)

SampleXs(size) == {(k * size[1]) \div SampleGrid : k \in 0..(SampleGrid - 1)} \cup {size[1] - 1}
SampleYs(size) == {(k * size[2]) \div SampleGrid : k \in 0..(SampleGrid - 1)} \cup {size[2] - 1}

BoxesMeet(a, b) ==
    /\ a.pts[1][1] <= b.pts[2][1] /\ b.pts[1][1] <= a.pts[2][1]
    /\ a.pts[1][2] <= b.pts[2][2] /\ b.pts[1][2] <= a.pts[2][2]

\* C4: immediately after the tiling loop of the 720p image every grid origin
\* (x, y), x in {0,50,...,1250}, y in {0,50,...,700}, has been visited exactly
\* once, the tile anchored there is filled with (x mod 255, y mod 255,
\* (x+y) mod 255), no two tiles share a pixel, and every pixel a tile covers
\* holds the colour of the one tile covering it.
C4_TilesVisitedOnceAndDisjoint ==
    pc = "text_720p" =>
       LET cv == canvases["img_720p"]
           n == Len(cv.calls)
       IN /\ n = 26 * 15
          /\ \A gx \in 0..25, gy \in 0..14 :
                Cardinality({j \in 1..n : cv.calls[j].pts[1] = <<50 * gx, 50 * gy>>}) = 1
          /\ \A j \in 1..n :
                LET t == cv.calls[j]
                    ox == t.pts[1][1]
                    oy == t.pts[1][2]
                IN /\ t.kind = "rectangle"
                   /\ ox % 50 = 0 /\ ox \in 0..1279
                   /\ oy % 50 = 0 /\ oy \in 0..719
                   /\ t.pts[2] = <<ox + 40, oy + 40>>
                   /\ t.fill.rgb = <<ox % 255, oy % 255, (ox + oy) % 255>>
          /\ \A j \in 1..n : \A k \in (j + 1)..n : ~BoxesMeet(cv.calls[j], cv.calls[k])
          /\ \A px \in SampleXs(cv.size), py \in SampleYs(cv.size) :
                LET W == Writers(cv, px, py)
                    ox == 50 * (px \div 50)
                    oy == 50 * (py \div 50)
                IN /\ Cardinality(W) <= 1
                   /\ W # {} => PixelAt(cv, px, py).rgb = <<ox % 255, oy % 255, (ox + oy) % 255>>
                   /\ W = {} => PixelAt(cv, px, py) = Named("orange")

C4_Witness ==
    /\ pc = "text_720p"
    /\ Len(canvases["img_720p"].calls) = 390
    /\ canvases["img_720p"].calls[390].pts = <<<<1250, 700>>, <<1290, 740>>>>
    /\ \E px \in SampleXs(<<1280, 720>>), py \in SampleYs(<<1280, 720>>) :
          Writers(canvases["img_720p"], px, py) # {}

\* the calls that touch column col of a canvas
ColumnWriters(cv, col) ==
    {j \in 1..Len(cv.calls) : cv.calls[j].pts[1][1] <= col /\ col <= cv.calls[j].pts[2][1]}
CoversColumn(cv, j) ==
    /\ cv.calls[j].kind = "line"
    /\ cv.calls[j].pts[1][2] <= 0
    /\ cv.calls[j].pts[2][2] >= cv.size[2] - 1
Near(a, b) == a - b \in -1..1

\* C5: after the 1080p gradient loop, before the text stamps, every column x in
\* [0,1920) holds in all its 1080 rows the one colour (floor(255*x/1920), 100,
\* 255 - floor(255*x/1920)); column 0 holds (0,100,255), column 1919 is within
\* one unit per channel of (255,100,0); red never decreases and blue never
\* increases with x; no pixel keeps the background.
C5_GradientColumns ==
    pc = "text_1080p" =>
       LET cv == canvases["img_1080p"]
           last == [col \in 0..1919 |->
                      IF ColumnWriters(cv, col) = {} THEN 0 ELSE SetMax(ColumnWriters(cv, col))]
           colour == [col \in 0..1919 |-> cv.calls[last[col]].fill.rgb]
       IN /\ cv.size = <<1920, 1080>>
          /\ \A col \in 0..1919 :
                /\ last[col] # 0
                /\ CoversColumn(cv, last[col])
                /\ colour[col] = <<(255 * col) \div 1920, 100, 255 - ((255 * col) \div 1920)>>
          /\ colour[0] = <<0, 100, 255>>
          /\ Near(colour[1919][1], 255) /\ Near(colour[1919][2], 100) /\ Near(colour[1919][3], 0)
          /\ \A col \in 0..1918 :
                /\ colour[col][1] <= colour[col + 1][1]
                /\ colour[col][3] >= colour[col + 1][3]

C5_Witness ==
    /\ pc = "text_1080p"
    /\ Len(canvases["img_1080p"].calls) = 1920
    /\ canvases["img_1080p"].calls[1920].fill.rgb = <<254, 100, 1>>

\* the band lines that paint row `row` of a canvas over its full width
RowLines(cv, row) ==
    {j \in 1..Len(cv.calls) :
        /\ cv.calls[j].kind = "line"
        /\ cv.calls[j].pts[1][2] = row /\ cv.calls[j].pts[2][2] = row
        /\ cv.calls[j].pts[1][1] <= 0 /\ cv.calls[j].pts[2][1] >= cv.size[1] - 1}
TextMayCover(cv, px, py) ==
    \E j \in 1..Len(cv.calls) : cv.calls[j].kind = "text" /\ Footprint(cv.calls[j], px, py)

\* C10: in sample_photo the sky band (rows 0..499) and the ground band (rows
\* 500..1535) paint every row of the canvas exactly once over its full width,
\* so no pixel keeps the background; the calls are the bands, then the
\* polygon, then the two text stamps; with last-write-wins a pixel inside the
\* polygon ends gray and a pixel outside it keeps the colour of its row's
\* band, unless a text stamp may cover it.
C10_PhotoBandsThenPolygon ==
    LET cv == canvases["img_photo"]
        n == Len(cv.calls)
    IN /\ pc = "mountains" =>
             /\ n = 1536
             /\ \A row \in 0..1535 :
                   /\ Cardinality(RowLines(cv, row)) = 1
                   /\ RowLines(cv, row) \subseteq (IF row < 500 THEN 1..500 ELSE 501..1536)
             /\ \A px \in SampleXs(cv.size), py \in SampleYs(cv.size) :
                   /\ Writers(cv, px, py) # {}
                   /\ PixelAt(cv, px, py) # Named("lightblue")
       /\ pc = "save_photo" =>
             /\ n = 1539
             /\ \A j \in 1..1536 : cv.calls[j].kind = "line"
             /\ cv.calls[1537].kind = "polygon"
             /\ cv.calls[1538].kind = "text" /\ cv.calls[1539].kind = "text"
             /\ \A px \in SampleXs(cv.size), py \in SampleYs(cv.size) :
                   ~TextMayCover(cv, px, py) =>
                      IF InPolygon(cv.calls[1537].pts, px, py)
                      THEN PixelAt(cv, px, py) = Named("gray")
                      ELSE \E j \in RowLines(cv, py) : PixelAt(cv, px, py) = cv.calls[j].fill

C10_Witness ==
    /\ pc = "save_photo"
    /\ \E px \in SampleXs(<<2048, 1536>>), py \in SampleYs(<<2048, 1536>>) :
          /\ ~TextMayCover(canvases["img_photo"], px, py)
          /\ InPolygon(points, px, py)
          /\ PixelAt(canvases["img_photo"], px, py) = Named("gray")
    /\ \E px \in SampleXs(<<2048, 1536>>), py \in SampleYs(<<2048, 1536>>) :
          /\ ~TextMayCover(canvases["img_photo"], px, py)
          /\ ~InPolygon(points, px, py)
          /\ py >= 500

Kinds(cv) == [j \in 1..Len(cv.calls) |-> cv.calls[j].kind]
TextCalls(cv) == SelectSeq(cv.calls, LAMBDA c : c.kind = "text")
Stamps(cv) == [j \in 1..Len(TextCalls(cv)) |-> <<TextCalls(cv)[j].pts[1], TextCalls(cv)[j].text>>]
Repeat(k, n) == [j \in 1..n |-> k]

\* C6: a failure to load the default font is absorbed: no error propagates,
\* font is None, and create_sample_images still makes every drawing call and
\* all eight text stamps and saves the four images, in the order of a run
\* where the font loads.  (The calls and files listed are those of either
\* run; only the font handed to the text stamps differs.)
C6_FontFailureAbsorbed ==
    /\ pc # "aborted"
    /\ pc = "print_photo" =>
          /\ font \in {"default", "None"}
          /\ Kinds(canvases["img_4k"]) = <<"rectangle", "ellipse", "text", "text", "save">>
          /\ Kinds(canvases["img_1080p"]) = Repeat("line", 1920) \o <<"text", "text", "save">>
          /\ Kinds(canvases["img_720p"]) = Repeat("rectangle", 390) \o <<"text", "text", "save">>
          /\ Kinds(canvases["img_photo"]) =
                Repeat("line", 1536) \o <<"polygon", "text", "text", "save">>
          /\ Stamps(canvases["img_4k"]) =
                << <<<<200, 200>>, "Sample 4K Image">>, <<<<200, 300>>, "For CompressCLI Testing">> >>
          /\ Stamps(canvases["img_1080p"]) =
                << <<<<100, 100>>, "Sample 1080p Image">>, <<<<100, 150>>, "Gradient Background">> >>
          /\ Stamps(canvases["img_720p"]) =
                << <<<<50, 50>>, "Sample 720p Image">>, <<<<50, 100>>, "Pattern Background">> >>
          /\ Stamps(canvases["img_photo"]) =
                << <<<<100, 1400>>, "Sample Photo-like Image">>,
                   <<<<100, 1450>>, "Landscape Simulation">> >>
          /\ \A n \in ImgNames : \A j \in 1..Len(canvases[n].calls) :
                canvases[n].calls[j].kind = "text" => canvases[n].calls[j].font = font
          /\ files = ImageFiles

C6_Witness ==
    /\ pc = "print_photo"
    /\ font = "None"
    /\ Len(files) = 4
    /\ Len(TextCalls(canvases["img_photo"])) = 2

Stamped(f) == Len(f.calls) >= 4

\* C8 as stated: every frame with 0-based index i is stamped, after its
\* colour field is filled, with "Frame i/300" showing its index i, the time
\* i/30 to one decimal place, and the constant caption.
C8_FrameLabelsZeroBased ==
    Stamped(frame) =>
       /\ frame.calls[1].kind = "field"
       /\ frame.calls[2].text = "Frame " \o ToString(frame.id) \o "/300"
       /\ \E d \in 0..100 :
             /\ 6 * d - 2 * frame.id \in -3..3
             /\ frame.calls[3].text =
                   "Time: " \o ToString(d \div 10) \o "." \o ToString(d % 10) \o "s"
       /\ frame.calls[4].text = "Sample Video for CompressCLI"

\* C8 as amended: every frame with 0-based index i in [0,300) is stamped,
\* after its colour field is filled, with exactly three labels: the 1-based
\* counter "Frame (i+1)/300", the time i/30 to one decimal place, and the
\* constant caption.
C8_FrameLabelsOneBased ==
    /\ frame.id \in -1..299
    /\ pc = "write_frame" => Stamped(frame)
    /\ Stamped(frame) =>
          /\ frame.calls[1].kind = "field"
          /\ \A j \in 2..4 : frame.calls[j].kind = "putText"
          /\ \A j \in 5..Len(frame.calls) : frame.calls[j].kind \notin {"field", "putText"}
          /\ frame.calls[2].text = "Frame " \o ToString(frame.id + 1) \o "/300"
          /\ \E d \in 0..100 :
                /\ 6 * d - 2 * frame.id \in -3..3
                /\ frame.calls[3].text =
                      "Time: " \o ToString(d \div 10) \o "." \o ToString(d % 10) \o "s"
          /\ frame.calls[4].text = "Sample Video for CompressCLI"

C8_Witness ==
    /\ pc = "write_frame"
    /\ frame.id = 299
    /\ frame.calls[2].text = "Frame 300/300"
    /\ frame.calls[3].text = "Time: 10.0s"

ArtifactPaths ==
    <<"examples/samples/sample_4k.png", "examples/samples/sample_1080p.jpg",
      "examples/samples/sample_720p.webp", "examples/samples/sample_photo.jpg",
      "examples/samples/sample_video.mp4">>
ProgressMessages ==
    <<"Created sample_4k.png (3840x2160)", "Created sample_1080p.jpg (1920x1080)",
      "Created sample_720p.webp (1280x720)", "Created sample_photo.jpg (2048x1536)",
      "Created sample_video.mp4 (1280x720, 10s)">>
CanvasOrder == <<"img_4k", "img_1080p", "img_720p", "img_photo">>
Saved(cv) == \E j \in 1..Len(cv.calls) : cv.calls[j].kind = "save"
SaveOnlyLast(cv) == \A j \in 1..Len(cv.calls) : cv.calls[j].kind = "save" => j = Len(cv.calls)

\* C9: in a full run the artifacts are built one after another in the order
\* sample_4k, sample_1080p, sample_720p, sample_photo, sample_video: a canvas
\* (and a frame buffer) is created only after the previous one was handed to
\* its encoder, receives all its drawing calls, and is handed over exactly
\* once, as the last call made on it; no canvas goes to two artifacts; and an
\* artifact's progress message is printed only after its encoder call.
C9_ArtifactsBuiltInOrder ==
    /\ Len(files) <= 5
    /\ \A k \in 1..Len(files) : files[k].path = ArtifactPaths[k]
    /\ \A k \in 1..5 : InSeq(ProgressMessages[k], stdout) => Len(files) >= k
    /\ \A k \in 1..4 :
          LET cv == canvases[CanvasOrder[k]]
          IN /\ SaveOnlyLast(cv)
             /\ Saved(cv) => /\ cv.calls[Len(cv.calls)].text = ArtifactPaths[k]
                             /\ Len(files) >= k
                             /\ files[k].content = Len(cv.calls) - 1
                             /\ files[k].content = ImageFiles[k].content
             /\ (cv.live /\ k > 1) => Saved(canvases[CanvasOrder[k - 1]])
             /\ ~cv.live => cv.calls = <<>>
    /\ out # <<>> => Len(files) >= 4
    /\ \A j \in 1..Len(frame.calls) : frame.calls[j].kind = "write" => j = 5
    /\ Cardinality({out[j].frame : j \in {k \in 1..Len(out) : out[k].op = "write"}}) =
          Cardinality({k \in 1..Len(out) : out[k].op = "write"})
    /\ Len(files) = 5 => /\ files[5].content = 300
                         /\ out[Len(out)].op = "release"

C9_Witness ==
    /\ pc = "done"
    /\ Len(files) = 5
    /\ \A k \in 1..5 : InSeq(ProgressMessages[k], stdout)
====
